---------------------------- MODULE Spec2Model ----------------------------
(***************************************************************************)
(* State-machine model of the client-side controllers of the wedding       *)
(* invitation site: the RSVP form controller (js/rsvp.js), the geolocation *)
(* helper of LocationMapController (js/main.js), the gift section's        *)
(* copy-to-clipboard widget (js/custom.js) and the HTML partial loader     *)
(* (js/main.js), and the timeline animation controller of the extended     *)
(* main script.                                                            *)
(*                                                                         *)
(* JavaScript runs every handler to completion on one event loop, so one   *)
(* action is one handler (or one continuation of an async function after   *)
(* its await).  Strings are sequences of one-character strings, so that    *)
(* trim, toLowerCase, parseInt and the regular expressions are computed    *)
(* character by character.                                                 *)
(***************************************************************************)
EXTENDS Integers, Sequences, FiniteSets, TLC

VARIABLES
    \* ---- RSVPFormController (js/rsvp.js) ----
    fields,          \* this.fields: the values of the form controls
    errors,          \* this.errorContainers: text shown under each control
    rsvpData,        \* localStorage["wedding_rsvp_data"], parsed
    rsvpStats,       \* localStorage["wedding_rsvp_stats"], parsed (Null: absent)
    rsvpDraft,       \* localStorage["rsvp_draft"], parsed (Null: absent)
    submitDisabled,  \* this.submitButton.disabled
    formVisible,     \* this.form.style.display # "none"
    successVisible,  \* this.successMessage.style.display = "block"
    status,          \* #submit-status: its text and whether it is displayed
    pending,         \* handleSubmit invocations suspended at their await
    consoleSaved,    \* console.log("RSVP data saved successfully:", formData)
    submitRejected,  \* a promise returned by handleSubmit was rejected
    overlapSeen,     \* history: a handleSubmit passed validation while another was pending
    \* ---- LocationMapController.getUserLocationAndDistance (js/main.js) ----
    geoSupported,    \* navigator.geolocation is defined
    geoCalls,        \* the promises returned so far, one record per call
    \* ---- copyToClipboard (js/custom.js) ----
    clipboardApi,    \* navigator.clipboard && window.isSecureContext
    clipCalls,       \* one record per copyToClipboard call
    button,          \* the copy button: .copy-text label, "copied" class, style.background
    feedbackTimers,  \* the 2 s reset timers not yet fired, oldest first
    \* ---- loadHTML (js/main.js) ----
    elementPresent,  \* document.getElementById(id) is not null, per section
    sections,        \* per section: state of its fetch chain and of its element
    \* ---- single calls of RSVPFormController methods ----
    call,            \* the last call: its receiver's state, arguments and outcome
    \* ---- TimelineAnimationController ----
    timelineItems,   \* per .timeline-item: the "animate" class and style.opacity
    animatedItems,   \* this.animatedItems
    timers,          \* setTimeout callbacks not yet run, per kind and item
    inView,          \* items the intersection observer last reported intersecting
    sinceReset       \* history: what happened since the last resetAnimations

rsvpVars == <<fields, errors, rsvpData, rsvpStats, rsvpDraft, submitDisabled,
              formVisible, successVisible, status, pending,
              consoleSaved, submitRejected, overlapSeen>>
geoVars  == <<geoSupported, geoCalls>>
clipVars == <<clipboardApi, clipCalls, button, feedbackTimers>>
loadVars == <<elementPresent, sections>>
callVars == <<call>>
timelineVars == <<timelineItems, animatedItems, timers, inView, sinceReset>>
vars     == <<rsvpVars, geoVars, clipVars, loadVars, callVars, timelineVars>>

-----------------------------------------------------------------------------
(* JavaScript values *)

\* a number n, NaN, and null (also an absent localStorage key); the selected
\* radio value is a string, "null" when no radio is checked
Num(n)      == [type |-> "number", val |-> n]
NaN         == [type |-> "NaN"]
Null        == [type |-> "null"]
NoSelection == "null"

Whitespace == {" "}
Letters    == {"a", "b", "h", "i", "l", "A", "B"}
Digits     == {"0", "1", "2", "3", "4", "5", "6", "7", "8", "9"}

\* characters outside ASCII, written as their code points: the
\* multiplication sign, e with acute accent, and the Cyrillic letter ya
NonAscii == {"U+00D7", "U+00E9", "U+044F"}
CodePoint(c) ==
    CASE c = "U+00D7" -> 215 [] c = "U+00E9" -> 233 [] c = "U+044F" -> 1103

DigitVal(c) ==
    CASE c = "0" -> 0 [] c = "1" -> 1 [] c = "2" -> 2 [] c = "3" -> 3
      [] c = "4" -> 4 [] c = "5" -> 5 [] c = "6" -> 6 [] c = "7" -> 7
      [] c = "8" -> 8 [] c = "9" -> 9

\* String.prototype.trim
RECURSIVE TrimLeft(_)
TrimLeft(s) ==
    IF s # <<>> /\ Head(s) \in Whitespace THEN TrimLeft(Tail(s)) ELSE s

RECURSIVE TrimRight(_)
TrimRight(s) ==
    IF s # <<>> /\ s[Len(s)] \in Whitespace
    THEN TrimRight(SubSeq(s, 1, Len(s) - 1)) ELSE s

Trim(s) == TrimRight(TrimLeft(s))

\* String.prototype.toLowerCase
LowerChar(c) == CASE c = "A" -> "a" [] c = "B" -> "b" [] OTHER -> c

ToLowerCase(s) == [i \in DOMAIN s |-> LowerChar(s[i])]

\* parseInt(s): leading whitespace skipped, then the longest run of digits;
\* NaN when there is none.
RECURSIVE ParseDigits(_, _)
ParseDigits(s, acc) ==
    IF s = <<>> \/ Head(s) \notin Digits THEN acc
    ELSE ParseDigits(Tail(s), acc * 10 + DigitVal(Head(s)))

parseInt(s) ==
    LET t == TrimLeft(s)
    IN  IF t = <<>> \/ Head(t) \notin Digits THEN NaN ELSE Num(ParseDigits(t, 0))

\* Array.prototype.slice(-n), n > 0: the last n elements
SliceLast(s, n) == IF Len(s) <= n THEN s ELSE SubSeq(s, Len(s) - n + 1, Len(s))

\* JSON.parse(JSON.stringify(entry)): NaN is written as null
JsonEntry(e) == [e EXCEPT !.guestCount = IF @ = NaN THEN Null ELSE @]

JsonRoundTrip(list) == [i \in DOMAIN list |-> JsonEntry(list[i])]

-----------------------------------------------------------------------------
(* RSVPFormController: validation *)

minLength  == 2
maxLength  == 100
maxEntries == 100

\* the ranges \u00C0-\u017F, \u0100-\u024F and \u1E00-\u1EFF of
\* validationRules.name.pattern
InNameRanges(n) ==
    \/ 192 <= n /\ n <= 383
    \/ 256 <= n /\ n <= 591
    \/ 7680 <= n /\ n <= 7935

\* validationRules.name.pattern:
\* /^[a-zA-Z\s\u00C0-\u017F\u0100-\u024F\u1E00-\u1EFF]+$/
NamePattern(v) ==
    /\ Len(v) >= 1
    /\ \A i \in DOMAIN v :
          \/ v[i] \in Letters \cup Whitespace
          \/ v[i] \in NonAscii /\ InNameRanges(CodePoint(v[i]))

\* validationRules.email.pattern: /^[^\s@]+@[^\s@]+\.[^\s@]+$/
EmailPattern(v) ==
    \E i, j \in DOMAIN v :
        /\ v[i] = "@" /\ v[j] = "."
        /\ 1 < i /\ i + 1 < j /\ j < Len(v)
        /\ \A k \in DOMAIN v \ {i} : v[k] \notin Whitespace \cup {"@"}

\* The messages validateField writes into the error containers
MsgNone       == ""
MsgRequired   == "wajib diisi"
MsgMinLength  == "minimal karakter"
MsgMaxLength  == "maksimal karakter"
MsgEmailFmt   == "Format email tidak valid"
MsgNameFmt    == "Nama hanya boleh mengandung huruf dan spasi"
MsgDuplicate  == "Email ini sudah terdaftar"
MsgAttendance == "Mohon pilih konfirmasi kehadiran Anda"

\* getRSVPData: the parsed list, [] when the key is absent
getRSVPData(data) == data

isEmailAlreadyRegistered_caseSensitive(email, data) ==
    \E i \in DOMAIN getRSVPData(data) : getRSVPData(data)[i].email = email

isEmailAlreadyRegistered(email, data) ==
    \E i \in DOMAIN getRSVPData(data) :
        ToLowerCase(getRSVPData(data)[i].email) = ToLowerCase(email)

\* validateField for the text fields that have rules (name, email): the
\* error message it computes, MsgNone when the field is valid.
NameError(f) ==
    LET value == Trim(f.name)
    IN  IF value = <<>> THEN MsgRequired
        ELSE IF Len(value) < minLength THEN MsgMinLength
        ELSE IF Len(value) > maxLength THEN MsgMaxLength
        ELSE IF ~NamePattern(value) THEN MsgNameFmt
        ELSE MsgNone

EmailError(f, data) ==
    LET value == Trim(f.email)
    IN  IF value = <<>> THEN MsgRequired
        ELSE IF ~EmailPattern(value) THEN MsgEmailFmt
        ELSE IF isEmailAlreadyRegistered(value, data) THEN MsgDuplicate
        ELSE MsgNone

AttendanceError(f) ==
    IF f.attendance = NoSelection THEN MsgAttendance ELSE MsgNone

\* validateField(fieldName): the error containers afterwards.  "guests" has
\* no entry in this.fields (the control is registered as guestCount), so the
\* call returns true at line 139 and touches nothing.
validateField(fieldName, f, data, errs) ==
    CASE fieldName = "name"       -> [errs EXCEPT !.name = NameError(f)]
      [] fieldName = "email"      -> [errs EXCEPT !.email = EmailError(f, data)]
      [] fieldName = "attendance" -> [errs EXCEPT !.attendance = AttendanceError(f)]
      [] fieldName = "guests"     -> errs

\* the keys of this.fields, of this.validationRules and of
\* this.errorContainers
FieldKeys     == {"name", "email", "attendance", "guestCount", "message"}
RuleKeys      == {"name", "email", "attendance"}
ContainerKeys == {"name", "email", "attendance", "guests", "message"}

\* One call validateField(fieldName): the error it throws ("none": it
\* returns), the value it returns and the message it writes into the error
\* container ("untouched": the container is not written).  containers are the
\* keys of this.errorContainers whose element exists in the document.  A
\* field with a control and a container but no entry in validationRules
\* reaches rules.required with rules undefined, which throws a TypeError.
validateFieldCall(fieldName, f, data, containers) ==
    IF fieldName \notin FieldKeys \/ fieldName \notin containers
    THEN [threw |-> "none", value |-> TRUE, message |-> "untouched"]
    ELSE IF fieldName = "attendance"
    THEN [threw |-> "none", value |-> (AttendanceError(f) = MsgNone),
          message |-> AttendanceError(f)]
    ELSE IF fieldName \notin RuleKeys
    THEN [threw |-> "TypeError", value |-> Null, message |-> "untouched"]
    ELSE IF fieldName = "name"
    THEN [threw |-> "none", value |-> (NameError(f) = MsgNone), message |-> NameError(f)]
    ELSE [threw |-> "none", value |-> (EmailError(f, data) = MsgNone),
          message |-> EmailError(f, data)]

\* validateForm: every field of validationRules is validated (all three
\* containers are rewritten), then "guests" when attendance is "yes".
ErrorsAfterValidateForm(f, data) ==
    [name |-> NameError(f), email |-> EmailError(f, data),
     attendance |-> AttendanceError(f)]

validateForm(f, data) ==
    /\ NameError(f) = MsgNone
    /\ EmailError(f, data) = MsgNone
    /\ AttendanceError(f) = MsgNone


-----------------------------------------------------------------------------
(* RSVPFormController: form data and local storage *)

\* collectFormData (id, timestamp and submittedAt, which are wall-clock
\* readings, are not modelled)
collectFormData(f) ==
    [name       |-> Trim(f.name),
     email      |-> Trim(f.email),
     attendance |-> (f.attendance = "yes"),
     guestCount |-> IF f.attendance = "yes" THEN parseInt(f.guestCount) ELSE Num(0),
     message    |-> Trim(f.message)]

\* entry.guestCount || 0
GuestsOrZero(e) == IF e.guestCount.type = "number" THEN e.guestCount.val ELSE 0

\* rsvpData.reduce((sum, entry) => sum + (entry.guestCount || 0), 0): the sum
\* over list[lo..hi], split in halves (addition is associative) so that the
\* evaluation stays shallow on a list of maxEntries records
RECURSIVE SumGuestsIn(_, _, _)
SumGuestsIn(list, lo, hi) ==
    IF lo > hi THEN 0
    ELSE IF lo = hi THEN GuestsOrZero(list[lo])
    ELSE LET mid == (lo + hi) \div 2
         IN  SumGuestsIn(list, lo, mid) + SumGuestsIn(list, mid + 1, hi)

SumGuests(list) == SumGuestsIn(list, 1, Len(list))

\* the stats object built by updateRSVPStatistics (lastUpdated not modelled)
RSVPStatistics(list) ==
    [totalResponses    |-> Len(list),
     attendingCount    |-> Cardinality({i \in DOMAIN list : list[i].attendance}),
     notAttendingCount |-> Cardinality({i \in DOMAIN list : ~list[i].attendance}),
     totalGuests       |-> SumGuests(list)]

\* updateRSVPStatistics: a failing setItem is caught and logged
updateRSVPStatistics(list, oldStats, wStats) ==
    IF wStats = "ok" THEN RSVPStatistics(list) ELSE oldStats

\* a quota handler that frees space by removing the list as well
handleStorageQuotaExceeded_clear(ls, wTrim) ==
    [data |-> <<>>, stats |-> ls.stats, draft |-> Null]

\* handleStorageQuotaExceeded: the storage it leaves behind.  It always
\* throws: the Error of line 643 is caught by its own catch, which throws the
\* Error of line 648; so does a failing setItem of the trimmed list.
handleStorageQuotaExceeded(ls, wTrim) ==
    [data  |-> IF Len(getRSVPData(ls.data)) >= maxEntries /\ wTrim = "ok"
               THEN JsonRoundTrip(SliceLast(getRSVPData(ls.data), maxEntries - 1))
               ELSE ls.data,
     stats |-> ls.stats,
     draft |-> Null]

\* saveRSVPData with the rethrow of line 575 missing
saveRSVPData_swallow(ls, formData, wData, wStats, wTrim) ==
    LET existingData == Append(getRSVPData(ls.data), formData)
    IN  IF wData = "ok"
        THEN [ls |-> [ls EXCEPT !.data = JsonRoundTrip(existingData),
                                !.stats = updateRSVPStatistics(existingData, ls.stats, wStats)],
              threw |-> "none", logged |-> TRUE]
        ELSE IF wData = "QuotaExceededError"
        THEN [ls |-> handleStorageQuotaExceeded(ls, wTrim),
              threw |-> "Error", logged |-> FALSE]
        ELSE [ls |-> ls, threw |-> "none", logged |-> FALSE]

\* saveRSVPData with the new entry written alone instead of pushed
saveRSVPData_overwrite(ls, formData, wData, wStats, wTrim) ==
    LET existingData == <<formData>>
    IN  IF wData = "ok"
        THEN [ls |-> [ls EXCEPT !.data = JsonRoundTrip(existingData),
                                !.stats = updateRSVPStatistics(existingData, ls.stats, wStats)],
              threw |-> "none", logged |-> TRUE]
        ELSE IF wData = "QuotaExceededError"
        THEN [ls |-> handleStorageQuotaExceeded(ls, wTrim),
              threw |-> "Error", logged |-> FALSE]
        ELSE [ls |-> ls, threw |-> wData, logged |-> FALSE]

\* saveRSVPData(formData): the storage afterwards, the error it throws
\* ("none": it returns) and whether line 567 logged the entry.  wData, wStats
\* and wTrim are the outcomes of the three localStorage.setItem calls.
saveRSVPData(ls, formData, wData, wStats, wTrim) ==
    LET existingData == Append(getRSVPData(ls.data), formData)
    IN  IF wData = "ok"
        THEN [ls |-> [ls EXCEPT !.data = JsonRoundTrip(existingData),
                                !.stats = updateRSVPStatistics(existingData, ls.stats, wStats)],
              threw |-> "none", logged |-> TRUE]
        ELSE IF wData = "QuotaExceededError"
        THEN [ls |-> handleStorageQuotaExceeded(ls, wTrim),
              threw |-> "Error", logged |-> FALSE]
        ELSE [ls |-> ls, threw |-> wData, logged |-> FALSE]

\* autoSaveFormData: the draft afterwards (savedAt not modelled); a failing
\* setItem is caught and leaves the old draft
autoSaveFormData(f, oldDraft, wDraft) ==
    IF wDraft = "ok"
    THEN [name |-> f.name, email |-> f.email, attendance |-> f.attendance,
          guestCount |-> f.guestCount, message |-> f.message]
    ELSE oldDraft

\* toggleGuestCountVisibility: the guest count is reset to "1" unless the
\* selected attendance is "yes"
toggleGuestCountVisibility(f) ==
    IF f.attendance = "yes" THEN f ELSE [f EXCEPT !.guestCount = <<"1">>]

\* localStorage["rsvp_draft"] as a string: the JSON text autoSaveFormData
\* writes at time now (a draft with its savedAt), a text JSON.parse refuses,
\* and the JSON text "null"; Null is the absent key
DraftItem(f, now) ==
    [type |-> "json", data |-> autoSaveFormData(f, Null, "ok"), savedAt |-> now]
UnparsableItem == [type |-> "unparsable"]
JsonNullItem   == [type |-> "json null"]

dayInMs == 24 * 60 * 60 * 1000

\* loadSavedData without the test of the draft's age
loadSavedData_noExpiry(item, now, f) ==
    IF item = Null
    THEN [fields |-> f, item |-> item, threw |-> "none"]
    ELSE IF item.type # "json"
    THEN [fields |-> f, item |-> Null, threw |-> "none"]
    ELSE LET d  == item.data
             f1 == [f EXCEPT !.name = IF d.name # <<>> THEN d.name ELSE @,
                             !.email = IF d.email # <<>> THEN d.email ELSE @,
                             !.message = IF d.message # <<>> THEN d.message ELSE @,
                             !.guestCount = IF d.guestCount # <<>> THEN d.guestCount ELSE @]
             f2 == IF d.attendance # NoSelection
                   THEN toggleGuestCountVisibility([f1 EXCEPT !.attendance = d.attendance])
                   ELSE f1
         IN  [fields |-> f2, item |-> item, threw |-> "none"]

\* loadSavedData at time now on a form whose controls hold f: the controls
\* and the stored item afterwards, and the error that escapes.  An absent
\* key returns at line 500; JSON.parse throwing (or data.savedAt on a parsed
\* null) is caught at line 530, where the item is removed; a draft older than
\* dayInMs is removed; otherwise every non-empty saved value is written into
\* its control, the saved radio is checked and toggleGuestCountVisibility runs.
loadSavedData(item, now, f) ==
    IF item = Null
    THEN [fields |-> f, item |-> item, threw |-> "none"]
    ELSE IF item.type # "json"
    THEN [fields |-> f, item |-> Null, threw |-> "none"]
    ELSE IF now - item.savedAt > dayInMs
    THEN [fields |-> f, item |-> Null, threw |-> "none"]
    ELSE LET d  == item.data
             f1 == [f EXCEPT !.name = IF d.name # <<>> THEN d.name ELSE @,
                             !.email = IF d.email # <<>> THEN d.email ELSE @,
                             !.message = IF d.message # <<>> THEN d.message ELSE @,
                             !.guestCount = IF d.guestCount # <<>> THEN d.guestCount ELSE @]
             f2 == IF d.attendance # NoSelection
                   THEN toggleGuestCountVisibility([f1 EXCEPT !.attendance = d.attendance])
                   ELSE f1
         IN  [fields |-> f2, item |-> item, threw |-> "none"]

\* a setSubmitButtonLoading that never re-enables the button
setSubmitButtonLoading_stuck(isLoading) == TRUE

\* setSubmitButtonLoading(isLoading): this.submitButton.disabled afterwards
setSubmitButtonLoading(isLoading) == isLoading

\* a clearAutoSavedData whose removeItem is missing
clearAutoSavedData_keep(draft) == draft

\* clearAutoSavedData: localStorage["rsvp_draft"] afterwards
clearAutoSavedData(draft) == Null

\* the catch clause of handleSubmit handles every error and rethrows none:
\* the error that escapes it
handleSubmitCatch(threw) == "none"

-----------------------------------------------------------------------------
(* Bounds and inputs of the RSVP model *)

MaxSaves        == 1      \* submissions accepted, form driven through its controls
MaxOverlapSaves == 2      \* submissions accepted, overlapping submit events
MaxInFlight     == 2      \* handleSubmit invocations suspended at once

Str_Al   == <<"A", "l">>
Str_a    == <<"a", "@", "b", ".", "a">>
Str_A    == <<" ", "A", "@", "b", ".", "a">>
Str_b    == <<"b", "@", "b", ".", "a">>
Str_bad  == <<"a", "b">>

\* what is typed into the controls (each control starts at its default)
NameInputs    == {<<>>, Str_Al}
EmailInputs   == {Str_A, Str_b, Str_bad}
GuestInputs   == {<<>>, <<"1">>}
MessageInputs == {<<>>, <<"h", "i">>}
Inputs ==
    [name |-> NameInputs, email |-> EmailInputs, attendance |-> {"yes", "no"},
     guestCount |-> GuestInputs, message |-> MessageInputs]

\* the inputs of the overlapping-submission specification
OverlapInputs ==
    [name |-> {Str_Al}, email |-> {Str_a, Str_b}, attendance |-> {"yes"},
     guestCount |-> {<<"1">>, <<"2">>}, message |-> {<<"h", "i">>}]

\* outcomes of localStorage.setItem: of the list, of the statistics and the
\* trimmed list, and of the draft (a few bytes; its write is taken to succeed)
DataWriteOutcomes  == {"ok", "QuotaExceededError", "SecurityError"}
WriteOutcomes      == {"ok", "fail"}
DraftWriteOutcomes == {"ok"}

\* the controls after form.reset() and on a fresh page
DefaultFields ==
    [name |-> <<>>, email |-> <<>>, attendance |-> NoSelection,
     guestCount |-> <<"1">>, message |-> <<>>]

NoErrors == [name |-> MsgNone, email |-> MsgNone, attendance |-> MsgNone]

StatusNone        == [text |-> "", shown |-> FALSE]
StatusFixErrors   == "Mohon perbaiki kesalahan pada form"
StatusSubmitError == "Terjadi kesalahan saat mengirim konfirmasi"

\* A list left in storage by earlier visits: n entries with pairwise
\* different emails a@b.a, a2@b.a, a3@b.a, ...
RECURSIVE DigitsOf(_)
DigitsOf(n) ==
    LET d == <<"0", "1", "2", "3", "4", "5", "6", "7", "8", "9">>[(n % 10) + 1]
    IN  IF n < 10 THEN <<d>> ELSE DigitsOf(n \div 10) \o <<d>>

LocalPart(i) == IF i = 1 THEN <<"a">> ELSE <<"a">> \o DigitsOf(i)

Preloaded(n) ==
    [i \in 1..n |->
        [name |-> Str_Al, email |-> LocalPart(i) \o <<"@", "b", ".", "a">>,
         attendance |-> (i % 2 = 1),
         guestCount |-> IF i % 2 = 1 THEN Num(1) ELSE Num(0),
         message |-> <<>>]]

InitialLists == {Preloaded(0), Preloaded(1), Preloaded(maxEntries)}

-----------------------------------------------------------------------------
(* RSVPFormController: the handlers *)

InitRSVP(lists) ==
    /\ fields = DefaultFields
    /\ errors = NoErrors
    /\ rsvpData \in lists
    /\ rsvpStats = IF rsvpData = <<>> THEN Null ELSE RSVPStatistics(rsvpData)
    /\ rsvpDraft = Null
    /\ submitDisabled = FALSE
    /\ formVisible = TRUE
    /\ successVisible = FALSE
    /\ status = StatusNone
    /\ pending = 0
    /\ consoleSaved = <<>>
    /\ submitRejected = FALSE
    /\ overlapSeen = FALSE

\* the other controllers share no state with this one
RSVPOnly == UNCHANGED <<geoVars, clipVars, loadVars, callVars, timelineVars>>

\* what no form-editing handler touches
UNCHANGED_Submission ==
    /\ UNCHANGED <<rsvpData, rsvpStats, submitDisabled, formVisible, successVisible,
                   status, pending, consoleSaved, submitRejected, overlapSeen>>
    /\ RSVPOnly

\* "input" on #rsvp-name: validateField("name"), then the form's own "input"
\* listener runs autoSaveFormData
InputName(in) ==
    \E v \in in.name, wDraft \in DraftWriteOutcomes :
        /\ formVisible
        /\ v # fields.name
        /\ fields' = [fields EXCEPT !.name = v]
        /\ errors' = validateField("name", fields', rsvpData, errors)
        /\ rsvpDraft' = autoSaveFormData(fields', rsvpDraft, wDraft)
        /\ UNCHANGED_Submission

\* "input" on #rsvp-email
InputEmail(in) ==
    \E v \in in.email, wDraft \in DraftWriteOutcomes :
        /\ formVisible
        /\ v # fields.email
        /\ fields' = [fields EXCEPT !.email = v]
        /\ errors' = validateField("email", fields', rsvpData, errors)
        /\ rsvpDraft' = autoSaveFormData(fields', rsvpDraft, wDraft)
        /\ UNCHANGED_Submission

\* "blur" on #rsvp-name or #rsvp-email: validateField alone
BlurField ==
    \E fieldName \in {"name", "email"} :
        /\ formVisible
        /\ errors' = validateField(fieldName, fields, rsvpData, errors)
        /\ errors' # errors
        /\ UNCHANGED <<fields, rsvpDraft>>
        /\ UNCHANGED_Submission

\* "change" on an attendance radio: validateField("attendance"),
\* toggleGuestCountVisibility, then the form's "change" listener autosaves
ChangeAttendance(in) ==
    \E v \in in.attendance, wDraft \in DraftWriteOutcomes :
        /\ formVisible
        /\ v # fields.attendance
        /\ fields' = toggleGuestCountVisibility([fields EXCEPT !.attendance = v])
        /\ errors' = validateField("attendance", fields', rsvpData, errors)
        /\ rsvpDraft' = autoSaveFormData(fields', rsvpDraft, wDraft)
        /\ UNCHANGED_Submission

\* "change" on #rsvp-guests (the control is displayed only while attendance
\* is "yes"): validateField("guests"), then autosave
ChangeGuests(in) ==
    \E v \in in.guestCount, wDraft \in DraftWriteOutcomes :
        /\ formVisible
        /\ fields.attendance = "yes"
        /\ v # fields.guestCount
        /\ fields' = [fields EXCEPT !.guestCount = v]
        /\ errors' = validateField("guests", fields', rsvpData, errors)
        /\ rsvpDraft' = autoSaveFormData(fields', rsvpDraft, wDraft)
        /\ UNCHANGED_Submission

\* "input" on #rsvp-message: the character counter, validateField("message")
\* (which writes nothing: it returns at line 139 or throws at line 155, and an
\* exception thrown by one listener does not stop the form's listener), then
\* autosave
InputMessage(in) ==
    \E v \in in.message, wDraft \in DraftWriteOutcomes :
        /\ formVisible
        /\ v # fields.message
        /\ fields' = [fields EXCEPT !.message = v]
        /\ rsvpDraft' = autoSaveFormData(fields', rsvpDraft, wDraft)
        /\ UNCHANGED errors
        /\ UNCHANGED_Submission

\* handleSubmit up to its await: validateForm, then either the error status
\* and return, or the loading state and the 1.5 s timer
handleSubmit ==
    /\ errors' = ErrorsAfterValidateForm(fields, rsvpData)
    /\ IF validateForm(fields, rsvpData)
       THEN /\ submitDisabled' = setSubmitButtonLoading(TRUE)
            /\ pending' = pending + 1
            /\ overlapSeen' = (overlapSeen \/ pending > 0)
            /\ UNCHANGED status
       ELSE /\ status' = [text |-> StatusFixErrors, shown |-> TRUE]
            /\ UNCHANGED <<submitDisabled, pending, overlapSeen>>
    /\ UNCHANGED <<fields, rsvpData, rsvpStats, rsvpDraft, formVisible,
                   successVisible, consoleSaved, submitRejected>>
    /\ RSVPOnly

\* "submit" fired by the user: the browser submits a form only through an
\* enabled submit button
Submit(maxSaves) ==
    /\ formVisible
    /\ ~submitDisabled
    /\ Len(consoleSaved) + pending < maxSaves
    /\ handleSubmit

\* "submit" dispatched while the button is disabled (form.requestSubmit(),
\* a dispatched event): handleSubmit itself tests nothing
RequestSubmit(maxSaves) ==
    /\ formVisible
    /\ submitDisabled
    /\ pending < MaxInFlight
    /\ Len(consoleSaved) + pending < maxSaves
    /\ handleSubmit

\* handleSubmit after its await: collectFormData, saveRSVPData, then
\* showSuccessMessage and clearAutoSavedData, or the catch clause; finally
\* setSubmitButtonLoading(false)
SubmitTimer ==
    \E wData \in DataWriteOutcomes, wStats \in WriteOutcomes, wTrim \in WriteOutcomes :
        LET formData == collectFormData(fields)
            r == saveRSVPData([data |-> rsvpData, stats |-> rsvpStats, draft |-> rsvpDraft],
                              formData, wData, wStats, wTrim)
        IN  /\ pending > 0
            /\ pending' = pending - 1
            /\ rsvpData' = r.ls.data
            /\ rsvpStats' = r.ls.stats
            /\ consoleSaved' = (IF r.logged THEN Append(consoleSaved, JsonEntry(formData))
                                ELSE consoleSaved)
            /\ IF r.threw = "none"
               THEN /\ formVisible' = FALSE
                    /\ successVisible' = TRUE
                    /\ rsvpDraft' = clearAutoSavedData(r.ls.draft)
                    /\ UNCHANGED <<status, submitRejected>>
               ELSE /\ status' = [text |-> StatusSubmitError, shown |-> TRUE]
                    /\ rsvpDraft' = r.ls.draft
                    /\ submitRejected' = (submitRejected \/ handleSubmitCatch(r.threw) # "none")
                    /\ UNCHANGED <<formVisible, successVisible>>
            /\ submitDisabled' = setSubmitButtonLoading(FALSE)
            /\ UNCHANGED <<fields, errors, overlapSeen>>
            /\ RSVPOnly

\* the 5 s timer of showFormStatus
HideStatus ==
    /\ status.shown
    /\ status' = [status EXCEPT !.shown = FALSE]
    /\ UNCHANGED <<fields, errors, rsvpData, rsvpStats, rsvpDraft, submitDisabled,
                   formVisible, successVisible, pending, consoleSaved,
                   submitRejected, overlapSeen>>
    /\ RSVPOnly

\* resetRSVPForm, the "new submission" button of the success panel
resetRSVPForm ==
    /\ successVisible
    /\ fields' = DefaultFields
    /\ errors' = NoErrors
    /\ formVisible' = TRUE
    /\ successVisible' = FALSE
    /\ UNCHANGED <<rsvpData, rsvpStats, rsvpDraft, submitDisabled, status, pending,
                   consoleSaved, submitRejected, overlapSeen>>
    /\ RSVPOnly

-----------------------------------------------------------------------------
(* The other controllers at rest *)

GeoAtRest  == geoSupported = TRUE /\ geoCalls = <<>>
\* the copy button as the page shows it before any copy attempt
OriginalButton == [label |-> "Salin", copied |-> FALSE, background |-> ""]
ClipAtRest ==
    /\ clipboardApi = TRUE /\ clipCalls = <<>>
    /\ button = OriginalButton /\ feedbackTimers = <<>>
LoadAtRest == elementPresent = {} /\ sections = <<>>
CallAtRest == call = [op |-> "none"]
TimelineAtRest ==
    /\ timelineItems = <<>> /\ animatedItems = {} /\ timers = <<>>
    /\ inView = {} /\ sinceReset = <<>>
OthersAtRest == CallAtRest /\ TimelineAtRest

Init ==
    /\ InitRSVP(InitialLists)
    /\ GeoAtRest /\ ClipAtRest /\ LoadAtRest /\ OthersAtRest

Next ==
    \/ InputName(Inputs)
    \/ InputEmail(Inputs)
    \/ BlurField
    \/ ChangeAttendance(Inputs)
    \/ ChangeGuests(Inputs)
    \/ InputMessage(Inputs)
    \/ Submit(MaxSaves)
    \/ SubmitTimer
    \/ HideStatus
    \/ resetRSVPForm

\* the RSVP form driven through its controls
Spec == Init /\ [][Next]_vars


InitOverlap ==
    /\ InitRSVP({Preloaded(0)})
    /\ GeoAtRest /\ ClipAtRest /\ LoadAtRest /\ OthersAtRest

NextOverlap ==
    \/ InputName(OverlapInputs)
    \/ InputEmail(OverlapInputs)
    \/ BlurField
    \/ ChangeAttendance(OverlapInputs)
    \/ ChangeGuests(OverlapInputs)
    \/ InputMessage(OverlapInputs)
    \/ Submit(MaxOverlapSaves)
    \/ RequestSubmit(MaxOverlapSaves)
    \/ SubmitTimer
    \/ HideStatus
    \/ resetRSVPForm

\* the RSVP form with submit events also dispatched while one is processed
SpecOverlap == InitOverlap /\ [][NextOverlap]_vars

NextFair ==
    \/ InputName(OverlapInputs)
    \/ InputEmail(OverlapInputs)
    \/ BlurField
    \/ ChangeAttendance(OverlapInputs)
    \/ ChangeGuests(OverlapInputs)
    \/ InputMessage(OverlapInputs)
    \/ Submit(MaxSaves)
    \/ SubmitTimer
    \/ HideStatus
    \/ resetRSVPForm

\* the RSVP form driven through its controls, starting from an empty list,
\* with the 1.5 s timer of a pending submission eventually firing (setTimeout
\* callbacks always run)
SpecFair == InitOverlap /\ [][NextFair]_vars /\ WF_vars(SubmitTimer)

-----------------------------------------------------------------------------
(* Properties of the RSVP controller *)

IsPrefix(s, t) == Len(s) <= Len(t) /\ SubSeq(t, 1, Len(s)) = s
IsSuffix(s, t) == Len(s) <= Len(t) /\ SliceLast(t, Len(s)) = s

SameEmail(e1, e2) == ToLowerCase(e1) = ToLowerCase(e2)

\* C1: in every reachable state no two records of the stored RSVP list have
\* emails that are equal ignoring case.
C1_UniqueEmails ==
    \A i, j \in DOMAIN rsvpData :
        i # j => ~SameEmail(rsvpData[i].email, rsvpData[j].email)

\* The form as C2 describes a form that fails validation: name or email empty
\* or malformed, no attendance selected, or the email equal, ignoring case,
\* to the email of a stored record.
C2_WellFormedEmail == Trim(fields.email) # <<>> /\ EmailPattern(Trim(fields.email))

C2_DuplicateEmail ==
    \E i \in DOMAIN rsvpData : SameEmail(rsvpData[i].email, Trim(fields.email))

C2_FormFails ==
    \/ Trim(fields.name) = <<>>
    \/ Len(Trim(fields.name)) < 2
    \/ Len(Trim(fields.name)) > 100
    \/ ~NamePattern(Trim(fields.name))
    \/ ~C2_WellFormedEmail
    \/ fields.attendance = NoSelection
    \/ C2_DuplicateEmail

\* C2: a submit event on a form that fails validation is rejected: the stored
\* list, the statistics and the draft are unchanged, no submission is left
\* pending, the success message is not shown, the submit button is not put in
\* the loading state, and a well-formed duplicate email shows the
\* duplicate-email error.
C2_InvalidSubmitRejected ==
    [][(handleSubmit /\ C2_FormFails) =>
        /\ rsvpData' = rsvpData
        /\ rsvpStats' = rsvpStats
        /\ rsvpDraft' = rsvpDraft
        /\ pending' = pending
        /\ submitDisabled' = submitDisabled
        /\ ~successVisible'
        /\ status' = [text |-> StatusFixErrors, shown |-> TRUE]
        /\ (C2_WellFormedEmail /\ C2_DuplicateEmail => errors'.email = MsgDuplicate)
      ]_vars

\* a submit with a duplicate email has just been rejected
C2_Witness ==
    /\ status = [text |-> StatusFixErrors, shown |-> TRUE]
    /\ errors.email = MsgDuplicate
    /\ errors.name = MsgNone /\ errors.attendance = MsgNone
    /\ C2_DuplicateEmail
    /\ pending = 0 /\ ~submitDisabled /\ consoleSaved = <<>>

C4_StatsMatchList ==
    \/ rsvpData = <<>> /\ rsvpStats = Null
    \/ rsvpStats = RSVPStatistics(rsvpData)

\* C5: every stored record has a boolean attendance and an integer
\* guestCount, which is 0 when attendance is false.
C5_GuestCountInteger ==
    \A i \in DOMAIN rsvpData :
        /\ rsvpData[i].attendance \in BOOLEAN
        /\ rsvpData[i].guestCount.type = "number"
        /\ ~rsvpData[i].attendance => rsvpData[i].guestCount.val = 0

\* C6: when a resumed handleSubmit does not get its record written (the step
\* ends a pending submission and appends nothing), the error is caught: the
\* promise is not rejected, the submission-error status is displayed, the
\* success message is not shown and the form stays visible, the stored list
\* holds no new record, and the submit button is enabled.
C6_WriteFailureCaught ==
    [][(pending' = pending - 1 /\ Len(rsvpData') <= Len(rsvpData)) =>
        /\ ~submitRejected'
        /\ status' = [text |-> StatusSubmitError, shown |-> TRUE]
        /\ ~successVisible'
        /\ formVisible'
        /\ ~submitDisabled'
        /\ rsvpData' \in {rsvpData, SliceLast(rsvpData, maxEntries - 1)}
        /\ consoleSaved' = consoleSaved
      ]_vars

\* a submission has just failed to be written
C6_Witness ==
    /\ status = [text |-> StatusSubmitError, shown |-> TRUE]
    /\ pending = 0 /\ ~submitDisabled /\ formVisible /\ ~successVisible
    /\ consoleSaved = <<>>
    /\ rsvpData \in InitialLists

\* C10: the records whose saves ran, in the order they ran, are the tail of
\* the stored list: overlapping submissions lose no update.
C10_NoLostUpdate == IsSuffix(consoleSaved, rsvpData)

\* two submissions overlapped, nothing failed, and both were saved
C10_Witness ==
    /\ overlapSeen
    /\ status = StatusNone
    /\ pending = 0
    /\ Len(consoleSaved) = 2
    /\ \A i \in 1..2 : EmailPattern(consoleSaved[i].email)
    /\ ~SameEmail(consoleSaved[1].email, consoleSaved[2].email)
    /\ rsvpData = consoleSaved

\* C12: a submit event on a form with attendance "yes" and a guest count
\* that is empty or not a number is rejected by validateForm: the error
\* status is shown, no submission is left pending and nothing is stored.
C12_InvalidGuestCountRejected ==
    [][(handleSubmit /\ fields.attendance = "yes" /\ parseInt(fields.guestCount) = NaN) =>
        /\ pending' = pending
        /\ submitDisabled' = submitDisabled
        /\ rsvpData' = rsvpData
        /\ status' = [text |-> StatusFixErrors, shown |-> TRUE]
      ]_vars

\* C13: every stored record carries values that pass validation: a trimmed
\* name of minLength to maxLength characters matching the name pattern, and
\* an email matching the email pattern.
C13_StoredValuesValidated ==
    \A i \in DOMAIN rsvpData :
        /\ rsvpData[i].name = Trim(rsvpData[i].name)
        /\ Len(rsvpData[i].name) >= minLength
        /\ Len(rsvpData[i].name) <= maxLength
        /\ NamePattern(rsvpData[i].name)
        /\ EmailPattern(rsvpData[i].email)

\* C15: the submit button is disabled exactly while a validated submission
\* is being processed, and every such submission ends with the button
\* enabled again.
C15_DisabledWhileProcessing ==
    /\ [](submitDisabled <=> pending > 0)
    /\ (pending > 0) ~> (pending = 0 /\ ~submitDisabled)

\* a submission was processed and saved, and the button is enabled again
C15_Witness ==
    /\ pending = 0 /\ ~submitDisabled
    /\ successVisible /\ Len(consoleSaved) = 1
    /\ rsvpData # <<>> /\ consoleSaved[1] = rsvpData[Len(rsvpData)]

\* C16: the step that saves a submission (line 567 logs its record) leaves
\* the record, as collected from the controls at that moment, last in the
\* stored list, the success message shown, the form hidden and the draft
\* absent; and an absent draft is written again only by a step that edits
\* the form.
C16_DraftClearedAfterSave ==
    [][/\ (pending' = pending - 1 /\ Len(consoleSaved') = Len(consoleSaved) + 1) =>
            /\ rsvpData' # <<>>
            /\ rsvpData'[Len(rsvpData')] = JsonEntry(collectFormData(fields))
            /\ consoleSaved'[Len(consoleSaved')] = rsvpData'[Len(rsvpData')]
            /\ successVisible' /\ ~formVisible'
            /\ rsvpDraft' = Null
       /\ (rsvpDraft = Null /\ rsvpDraft' # Null) => fields' # fields
      ]_vars

\* a submission was saved after the form was edited during its delay (the
\* saved name is empty, which validation refuses), and the draft is absent
C16_Witness ==
    /\ successVisible /\ ~formVisible
    /\ rsvpDraft = Null
    /\ Len(consoleSaved) = 1
    /\ consoleSaved[1].name = <<>>
    /\ rsvpData[Len(rsvpData)] = consoleSaved[1]

-----------------------------------------------------------------------------
(* LocationMapController.getUserLocationAndDistance *)

MaxGeoCalls == 3      \* calls of getUserLocationAndDistance

\* this.venueCoordinates, in 1/10000 of a degree
venueCoordinates == [lat |-> -77956, lng |-> 1103695]

\* positions the browser may report
GeoPositions == {venueCoordinates, [lat |-> -62088, lng |-> 1068456]}

\* GeolocationPositionError.code: PERMISSION_DENIED, POSITION_UNAVAILABLE, TIMEOUT
GeoErrorCodes == {1, 2, 3}

\* the promise of a call whose browser has no navigator.geolocation:
\* reject(new Error("Geolocation is not supported by this browser"))
GeoUnsupported ==
    [state |-> "rejected", value |-> [error |-> "Geolocation is not supported by this browser"]]

\* the success callback: resolve({userLocation, venueLocation, distance});
\* the distance (floating-point haversine) is not modelled
GeoOnPosition(position) ==
    [state |-> "resolved",
     value |-> [userLocation |-> position, venueLocation |-> venueCoordinates]]

\* an error callback that swallows the error and resolves with null
GeoOnError_handledLocally(error) ==
    [state |-> "resolved", value |-> Null]

\* the error callback: reject(error)
GeoOnError(error) ==
    [state |-> "rejected", value |-> [error |-> error]]

GeoPending == [state |-> "pending", value |-> Null]

GeoOnly == UNCHANGED <<rsvpVars, clipVars, loadVars, callVars, timelineVars>>

\* a call: without navigator.geolocation the promise is rejected at once,
\* otherwise getCurrentPosition is requested and the promise is pending
getUserLocationAndDistance ==
    /\ Len(geoCalls) < MaxGeoCalls
    /\ geoCalls' = Append(geoCalls,
          IF ~geoSupported
          THEN [outcome |-> "unsupported", promise |-> GeoUnsupported]
          ELSE [outcome |-> "requested", promise |-> GeoPending])
    /\ UNCHANGED geoSupported
    /\ GeoOnly

\* the browser calls the success callback of a pending request
GeoPositionFound ==
    \E i \in DOMAIN geoCalls, position \in GeoPositions :
        /\ geoCalls[i].outcome = "requested"
        /\ geoCalls' = [geoCalls EXCEPT ![i] =
              [outcome |-> "position", promise |-> GeoOnPosition(position)]]
        /\ UNCHANGED geoSupported
        /\ GeoOnly

\* the browser calls the error callback of a pending request (permission
\* denied, position unavailable, or the 10 s timeout)
GeoPositionError ==
    \E i \in DOMAIN geoCalls, code \in GeoErrorCodes :
        /\ geoCalls[i].outcome = "requested"
        /\ geoCalls' = [geoCalls EXCEPT ![i] =
              [outcome |-> "error", code |-> code, promise |-> GeoOnError(code)]]
        /\ UNCHANGED geoSupported
        /\ GeoOnly

RSVPAtRest ==
    /\ fields = DefaultFields /\ errors = NoErrors /\ rsvpData = <<>>
    /\ rsvpStats = Null /\ rsvpDraft = Null /\ submitDisabled = FALSE
    /\ formVisible = TRUE /\ successVisible = FALSE /\ status = StatusNone
    /\ pending = 0 /\ consoleSaved = <<>> /\ submitRejected = FALSE
    /\ overlapSeen = FALSE

InitGeo ==
    /\ geoSupported \in BOOLEAN
    /\ geoCalls = <<>>
    /\ RSVPAtRest /\ ClipAtRest /\ LoadAtRest /\ OthersAtRest

NextGeo ==
    \/ getUserLocationAndDistance
    \/ GeoPositionFound
    \/ GeoPositionError

SpecGeo == InitGeo /\ [][NextGeo]_vars

\* C7 as stated: no failure (geolocation unsupported, request denied or
\* timed out) reaches the caller as a rejected promise.
C7_NoRejectionReachesCaller ==
    \A i \in DOMAIN geoCalls : geoCalls[i].promise.state # "rejected"

\* C7 as amended: every failure rejects the promise returned to the caller
\* with the error itself, and a promise is fulfilled only with a position.
C7_FailureRejectsPromise ==
    \A i \in DOMAIN geoCalls :
        /\ geoCalls[i].outcome = "unsupported" =>
              geoCalls[i].promise = GeoUnsupported
        /\ geoCalls[i].outcome = "error" =>
              geoCalls[i].promise = [state |-> "rejected",
                                     value |-> [error |-> geoCalls[i].code]]
        /\ geoCalls[i].promise.state = "resolved" =>
              /\ geoCalls[i].outcome = "position"
              /\ geoCalls[i].promise.value.userLocation \in GeoPositions
        /\ geoCalls[i].outcome = "requested" <=> geoCalls[i].promise.state = "pending"

\* a request timed out and its promise is rejected with the timeout error
C7_Witness ==
    \E i \in DOMAIN geoCalls :
        /\ geoCalls[i].outcome = "error"
        /\ geoCalls[i].code = 3
        /\ geoCalls[i].promise.state = "rejected"

-----------------------------------------------------------------------------
(* copyToClipboard and fallbackCopyTextToClipboard *)

MaxCopies == 3        \* calls of copyToClipboard

ExecCommandOutcomes == {"true", "false", "throws"}

\* fallbackCopyTextToClipboard with removeChild inside the try block
fallbackCopyTextToClipboard_leak(exec) ==
    [feedback  |-> IF exec = "true" THEN <<"success">> ELSE <<"error">>,
     textareas |-> IF exec = "throws" THEN 1 ELSE 0,
     escaped   |-> FALSE]

\* fallbackCopyTextToClipboard: the feedback it shows, the textareas it
\* leaves in the document and whether an exception escapes it.  exec is what
\* document.execCommand("copy") does.
fallbackCopyTextToClipboard(exec) ==
    LET appended == 1      \* document.body.appendChild(textArea)
        removed  == 1      \* document.body.removeChild(textArea), after the try
    IN  [feedback  |-> IF exec = "true" THEN <<"success">> ELSE <<"error">>,
         textareas |-> appended - removed,
         escaped   |-> FALSE]

\* showCopySuccess: reads the label now shown as originalText, adds the
\* "copied" class, shows "Tersalin!" and sets a 2 s timer that removes the class
\* and writes originalText back
showCopySuccess(b, tm) ==
    [button |-> [b EXCEPT !.copied = TRUE, !.label = "Tersalin!"],
     timers |-> Append(tm, [kind |-> "success", originalText |-> b.label])]

\* showCopyError: reads the label now shown as originalText, sets the red
\* background, shows "Gagal!" and sets a 2 s timer that clears the background
\* and writes originalText back
showCopyError(b, tm) ==
    [button |-> [b EXCEPT !.background = "#dc3545", !.label = "Gagal!"],
     timers |-> Append(tm, [kind |-> "error", originalText |-> b.label])]

\* the feedback fallbackCopyTextToClipboard decided on, applied to the button
showFeedback(feedback, b, tm) ==
    IF feedback = <<"success">> THEN showCopySuccess(b, tm)
    ELSE IF feedback = <<"error">> THEN showCopyError(b, tm)
    ELSE [button |-> b, timers |-> tm]

ClipOnly == UNCHANGED <<rsvpVars, geoVars, loadVars, callVars, timelineVars>>

\* copyToClipboard: with the Clipboard API, writeText is started and the call
\* returns; without it the fallback runs at once
copyToClipboard ==
    /\ Len(clipCalls) < MaxCopies
    /\ IF clipboardApi
       THEN /\ clipCalls' = Append(clipCalls,
               [pc |-> "writing", writeText |-> "pending", exec |-> "none",
                fallbackUsed |-> FALSE, feedback |-> <<>>, textareas |-> 0,
                escaped |-> FALSE])
            /\ UNCHANGED <<button, feedbackTimers>>
       ELSE \E exec \in ExecCommandOutcomes :
               LET r == fallbackCopyTextToClipboard(exec)
                   s == showFeedback(r.feedback, button, feedbackTimers)
               IN  /\ clipCalls' = Append(clipCalls,
                      [pc |-> "done", writeText |-> "none", exec |-> exec,
                       fallbackUsed |-> TRUE, feedback |-> r.feedback,
                       textareas |-> r.textareas, escaped |-> r.escaped])
                   /\ button' = s.button
                   /\ feedbackTimers' = s.timers
    /\ UNCHANGED clipboardApi
    /\ ClipOnly

\* writeText fulfils: showCopySuccess
WriteTextFulfilled ==
    \E i \in DOMAIN clipCalls :
        /\ clipCalls[i].pc = "writing"
        /\ clipCalls' = [clipCalls EXCEPT ![i] =
              [@ EXCEPT !.pc = "done", !.writeText = "fulfilled",
                        !.feedback = Append(@, "success")]]
        /\ LET s == showCopySuccess(button, feedbackTimers)
           IN  button' = s.button /\ feedbackTimers' = s.timers
        /\ UNCHANGED clipboardApi
        /\ ClipOnly

\* writeText rejects: the catch handler runs the fallback
WriteTextRejected ==
    \E i \in DOMAIN clipCalls, exec \in ExecCommandOutcomes :
        LET r == fallbackCopyTextToClipboard(exec)
            s == showFeedback(r.feedback, button, feedbackTimers)
        IN  /\ clipCalls[i].pc = "writing"
            /\ button' = s.button
            /\ feedbackTimers' = s.timers
            /\ clipCalls' = [clipCalls EXCEPT ![i] =
                  [@ EXCEPT !.pc = "done", !.writeText = "rejected",
                            !.exec = exec, !.fallbackUsed = TRUE,
                            !.feedback = @ \o r.feedback,
                            !.textareas = r.textareas,
                            !.escaped = r.escaped]]
            /\ UNCHANGED clipboardApi
            /\ ClipOnly

\* the timeout callback of showCopySuccess or showCopyError.  All the timers
\* have the same 2000 ms delay, so they run in the order they were set.
FeedbackTimer ==
    /\ feedbackTimers # <<>>
    /\ LET t == Head(feedbackTimers)
       IN  button' = IF t.kind = "success"
                     THEN [button EXCEPT !.copied = FALSE,
                                         !.label = t.originalText]
                     ELSE [button EXCEPT !.background = "",
                                         !.label = t.originalText]
    /\ feedbackTimers' = Tail(feedbackTimers)
    /\ UNCHANGED <<clipboardApi, clipCalls>>
    /\ ClipOnly

InitClip ==
    /\ clipboardApi \in BOOLEAN
    /\ clipCalls = <<>>
    /\ button = OriginalButton
    /\ feedbackTimers = <<>>
    /\ RSVPAtRest /\ GeoAtRest /\ LoadAtRest /\ OthersAtRest

NextClip ==
    \/ copyToClipboard
    \/ WriteTextFulfilled
    \/ WriteTextRejected
    \/ FeedbackTimer

SpecClip == InitClip /\ [][NextClip]_vars

\* C8: every finished call of copyToClipboard has shown exactly one feedback;
\* the fallback was used exactly when the Clipboard API was unavailable or
\* writeText rejected; the feedback is success only if writeText fulfilled or
\* execCommand returned true, error only if execCommand returned false or
\* threw; no exception escaped and no textarea is left in the document.  A
\* call still waiting for writeText has shown nothing.
C8_ExactlyOneFeedback ==
    \A i \in DOMAIN clipCalls :
        LET c == clipCalls[i]
        IN  /\ c.pc = "writing" => c.feedback = <<>>
            /\ c.pc = "done" =>
                 /\ Len(c.feedback) = 1
                 /\ c.fallbackUsed <=> (c.writeText \in {"none", "rejected"})
                 /\ c.feedback = <<"success">> =>
                        (c.writeText = "fulfilled" \/ c.exec = "true")
                 /\ c.feedback = <<"error">> => c.exec \in {"false", "throws"}
            /\ ~c.escaped
            /\ c.textareas = 0

\* writeText rejected, the fallback threw, and the error feedback was shown
C8_Witness ==
    \E i \in DOMAIN clipCalls :
        /\ clipCalls[i].pc = "done"
        /\ clipCalls[i].writeText = "rejected"
        /\ clipCalls[i].exec = "throws"
        /\ clipCalls[i].feedback = <<"error">>

\* C21: whenever no feedback timer of the copy button is pending, the button
\* shows its original label and carries neither the "copied" class nor the
\* error background, whatever copy attempts were made before.
C21_ButtonResetAfterTimers ==
    feedbackTimers = <<>> => button = OriginalButton

-----------------------------------------------------------------------------
(* loadHTML and sectionsToLoad (js/main.js) *)

\* sectionsToLoad: the ids, and the one section with an onLoad callback
SectionIds == {"masthead", "about", "services", "portfolio", "contact"}
HasOnLoad(id) == id = "masthead"

\* what a section element holds: its static content, the partial served
\* with a 2xx status, or the body of an error response
InitialContent == "initial"
BodyOf(ok) == IF ok THEN "partial" ELSE "error page"

\* loadHTML's second then-handler: the element and whether the callback ran
LoadOnData(id, data, present, sec) ==
    IF present
    THEN [sec EXCEPT !.pc = "done", !.content = data, !.callbackRan = HasOnLoad(id)]
    ELSE [sec EXCEPT !.pc = "done"]

\* loadHTML's catch handler: console.error
LoadOnError(sec) == [sec EXCEPT !.pc = "failed", !.logged = TRUE]

LoadOnly == UNCHANGED <<rsvpVars, geoVars, clipVars, callVars, timelineVars>>

\* fetch(url) resolves with a response, whose status is 2xx or not;
\* the first then-handler calls response.text()
FetchResponds ==
    \E id \in SectionIds, ok \in BOOLEAN :
        /\ sections[id].pc = "fetching"
        /\ sections' = [sections EXCEPT ![id] = [@ EXCEPT !.pc = "reading", !.ok = ok]]
        /\ UNCHANGED elementPresent
        /\ LoadOnly

\* fetch(url) rejects (network error): the catch handler
FetchFails ==
    \E id \in SectionIds :
        /\ sections[id].pc = "fetching"
        /\ sections' = [sections EXCEPT ![id] = LoadOnError([@ EXCEPT !.networkError = TRUE])]
        /\ UNCHANGED elementPresent
        /\ LoadOnly

\* response.text() resolves with the body: the second then-handler
BodyArrives ==
    \E id \in SectionIds :
        /\ sections[id].pc = "reading"
        /\ sections' = [sections EXCEPT ![id] =
              LoadOnData(id, BodyOf(sections[id].ok), id \in elementPresent, @)]
        /\ UNCHANGED elementPresent
        /\ LoadOnly

\* response.text() rejects (the connection drops): the catch handler
BodyFails ==
    \E id \in SectionIds :
        /\ sections[id].pc = "reading"
        /\ sections' = [sections EXCEPT ![id] = LoadOnError([@ EXCEPT !.networkError = TRUE])]
        /\ UNCHANGED elementPresent
        /\ LoadOnly

\* after the DOMContentLoaded handler: loadHTML was called for every section
InitLoad ==
    /\ elementPresent \in {SectionIds, SectionIds \ {"contact"}}
    /\ sections = [id \in SectionIds |->
          [pc |-> "fetching", ok |-> TRUE, networkError |-> FALSE,
           content |-> InitialContent, callbackRan |-> FALSE, logged |-> FALSE]]
    /\ RSVPAtRest /\ GeoAtRest /\ ClipAtRest /\ OthersAtRest

NextLoad ==
    \/ FetchResponds
    \/ FetchFails
    \/ BodyArrives
    \/ BodyFails

SpecLoad == InitLoad /\ [][NextLoad]_vars

\* the load of a section has failed: a network error, or a response whose
\* status is not OK
LoadFailed(id) ==
    \/ sections[id].networkError
    \/ sections[id].pc \in {"reading", "done"} /\ ~sections[id].ok

\* C9: a section whose load failed keeps its content, its onLoad callback is
\* not invoked, and once its chain has ended the failure has been logged.
C9_FailedLoadLeavesSection ==
    \A id \in SectionIds :
        LoadFailed(id) =>
            /\ sections[id].content = InitialContent
            /\ ~sections[id].callbackRan
            /\ sections[id].pc \in {"done", "failed"} => sections[id].logged

-----------------------------------------------------------------------------
(* Single calls of RSVPFormController methods *)

\* the form states, stored lists and documents the calls are made on
LongName(n) == [i \in 1..n |-> "a"]

CallNames ==
    {<<>>, <<" ">>, <<"A">>, Str_Al, <<" ", "A", "l", " ">>, <<"A", "1">>,
     LongName(maxLength), LongName(maxLength + 1),
     <<"A", "U+00D7">>, <<"U+00E9", "l">>, <<"U+044F", "U+044F">>}

CallEmails ==
    {<<>>, Str_a, Str_A, Str_b, Str_bad, <<"a", "@", "b">>,
     <<"a", " ", "@", "b", ".", "a">>}

\* the form states the controls can be brought into: toggleGuestCountVisibility
\* keeps the guest count at "1" unless attendance is "yes"
CallForms ==
    {f \in [name : CallNames, email : CallEmails,
            attendance : {NoSelection, "yes", "no"},
            guestCount : {<<>>, <<"1">>, <<"2">>},
            message : {<<>>, <<"h", "i">>}] :
        f.attendance # "yes" => f.guestCount = <<"1">>}

CallLists == {Preloaded(0), Preloaded(1)}

\* the error containers a document may have: those of the validated controls,
\* with or without #guests-error and #message-error
CallContainers ==
    {{"name", "email", "attendance"} \cup extra : extra \in SUBSET {"guests", "message"}}

\* the field names the controller passes to validateField (lines 67-96, 295
\* and 304)
CallFieldNames == {"name", "email", "attendance", "guests", "message"}

CallsOnly == UNCHANGED <<rsvpVars, geoVars, clipVars, loadVars, timelineVars>>

\* the form states validateField is called on (it reads neither the message
\* nor the number of guests)
ValidateForms ==
    {f \in CallForms : f.message = <<>> /\ f.guestCount \in {<<>>, <<"1">>}}

\* validateField(fieldName) on a form state
CallValidateField ==
    \E fieldName \in CallFieldNames, f \in ValidateForms, data \in CallLists,
       containers \in CallContainers :
        LET r == validateFieldCall(fieldName, f, data, containers)
        IN  /\ call.op = "none"
            /\ call' = [op |-> "validateField", fieldName |-> fieldName,
                        fields |-> f, data |-> data, containers |-> containers,
                        threw |-> r.threw, value |-> r.value, message |-> r.message]
            /\ CallsOnly

InitCalls ==
    /\ CallAtRest
    /\ RSVPAtRest /\ GeoAtRest /\ ClipAtRest /\ LoadAtRest /\ TimelineAtRest

\* the drafts a page may find in storage: none, a text that is not JSON, the
\* text "null", and the draft of any form state saved at some time
SavedAts  == {0, 1000}
DraftAges == {0, dayInMs - 1, dayInMs, dayInMs + 1, 2 * dayInMs}

\* the form states drafts are saved from
DraftForms ==
    {f \in CallForms :
        /\ f.name \in {<<>>, <<" ">>, Str_Al, <<" ", "A", "l", " ">>}
        /\ f.email \in {<<>>, Str_A, Str_bad}}

DraftItems ==
    {Null, UnparsableItem, JsonNullItem}
        \cup {DraftItem(f, t) : f \in DraftForms, t \in SavedAts}

\* loadSavedData on a fresh page (init, line 58), at some time after the
\* draft was saved
CallLoadSavedData ==
    \E item \in DraftItems, age \in DraftAges :
        LET now == (IF item.type = "json" THEN item.savedAt ELSE 0) + age
            r   == loadSavedData(item, now, DefaultFields)
        IN  /\ call.op = "none"
            /\ call' = [op |-> "loadSavedData", item |-> item, now |-> now,
                        before |-> DefaultFields, fields |-> r.fields,
                        itemAfter |-> r.item, threw |-> r.threw]
            /\ CallsOnly

\* autoSaveFormData on a form state, then loadSavedData on a fresh page
\* within dayInMs
CallDraftRoundTrip ==
    \E f \in DraftForms, t \in SavedAts, age \in {a \in DraftAges : a <= dayInMs} :
        LET r == loadSavedData(DraftItem(f, t), t + age, DefaultFields)
        IN  /\ call.op = "none"
            /\ call' = [op |-> "draftRoundTrip", saved |-> f, savedAt |-> t,
                        now |-> t + age, restored |-> r.fields, threw |-> r.threw]
            /\ CallsOnly

\* the lengths of the stored list when the quota is exceeded
QuotaListSizes == {0, 1, maxEntries - 1, maxEntries, maxEntries + 1}

\* handleStorageQuotaExceeded on a stored list, with or without a draft
CallQuotaExceeded ==
    \E n \in QuotaListSizes, wTrim \in WriteOutcomes,
       draft \in {Null, autoSaveFormData(DefaultFields, Null, "ok")} :
        LET ls == [data |-> Preloaded(n), stats |-> RSVPStatistics(Preloaded(n)),
                   draft |-> draft]
        IN  /\ call.op = "none"
            /\ call' = [op |-> "handleStorageQuotaExceeded", before |-> ls,
                        wTrim |-> wTrim,
                        after |-> handleStorageQuotaExceeded(ls, wTrim)]
            /\ CallsOnly

NextCalls ==
    \/ CallValidateField
    \/ CallLoadSavedData
    \/ CallDraftRoundTrip
    \/ CallQuotaExceeded

\* methods of the controller, each called once on a state drawn from the
\* sets above
SpecCalls == InitCalls /\ [][NextCalls]_vars

\* C11: validateField returns a boolean, without throwing, for every field
\* name the controller calls it with.
C11_ValidateFieldReturnsBoolean ==
    (call.op = "validateField" /\ call.fieldName \in CallFieldNames) =>
        (call.threw = "none" /\ call.value \in BOOLEAN)

\* Letters, as the claims speak of them: the characters that are letters in
\* Unicode (of NonAscii, e with acute and Cyrillic ya; the multiplication
\* sign is a symbol)
IsLetter(c) == c \in Letters \cup {"U+00E9", "U+044F"}

\* the one error C14 expects for a trimmed name and a trimmed email, in the
\* priority required, minimum length, maximum length, pattern, duplicate
C14_NameMessage(v) ==
    IF v = <<>> THEN MsgRequired
    ELSE IF Len(v) < 2 THEN MsgMinLength
    ELSE IF Len(v) > 100 THEN MsgMaxLength
    ELSE IF \E i \in DOMAIN v : ~IsLetter(v[i]) /\ v[i] \notin Whitespace THEN MsgNameFmt
    ELSE MsgNone

C14_EmailMessage(v, data) ==
    IF v = <<>> THEN MsgRequired
    ELSE IF ~EmailPattern(v) THEN MsgEmailFmt
    ELSE IF \E i \in DOMAIN data : SameEmail(data[i].email, v) THEN MsgDuplicate
    ELSE MsgNone

\* C14: validateField for name and email writes the one error of highest
\* priority and returns true exactly when there is none: name is valid
\* exactly when its trimmed value has 2 to 100 characters, all letters or
\* whitespace; email exactly when its trimmed value is non-empty, matches the
\* email pattern and equals no stored email ignoring case.
C14_OneErrorByPriority ==
    (call.op = "validateField" /\ call.fieldName \in {"name", "email"}) =>
        LET expected == IF call.fieldName = "name"
                        THEN C14_NameMessage(Trim(call.fields.name))
                        ELSE C14_EmailMessage(Trim(call.fields.email), call.data)
        IN  /\ call.threw = "none"
            /\ call.message = expected
            /\ call.value = (expected = MsgNone)

\* C17: loadSavedData lets no exception escape; a draft older than 24 hours
\* and an unparsable draft are removed from storage and leave every control
\* unchanged; controls change only for a draft saved within the last 24 hours,
\* which stays in storage.
C17_DraftExpiry ==
    call.op = "loadSavedData" =>
        /\ call.threw = "none"
        /\ (call.item.type = "json" /\ call.now - call.item.savedAt > 24 * 60 * 60 * 1000) =>
              (call.itemAfter = Null /\ call.fields = call.before)
        /\ call.item.type = "unparsable" =>
              (call.itemAfter = Null /\ call.fields = call.before)
        /\ call.fields # call.before =>
              /\ call.item.type = "json"
              /\ call.now - call.item.savedAt <= 24 * 60 * 60 * 1000
              /\ call.itemAfter = call.item

\* a complete draft, one millisecond older than 24 hours, was found and removed
C17_Witness ==
    /\ call.op = "loadSavedData"
    /\ call.item.type = "json"
    /\ call.now - call.item.savedAt = 24 * 60 * 60 * 1000 + 1
    /\ call.item.data.name = Str_Al
    /\ call.item.data.attendance = "yes"
    /\ call.itemAfter = Null
    /\ call.fields = DefaultFields

\* C18: a draft saved from any form state and loaded on a fresh form within
\* 24 hours restores the saved name, email, message, attendance selection
\* and guest count.
C18_DraftRoundTrip ==
    call.op = "draftRoundTrip" =>
        /\ call.restored.name = call.saved.name
        /\ call.restored.email = call.saved.email
        /\ call.restored.message = call.saved.message
        /\ call.restored.attendance = call.saved.attendance
        /\ call.restored.guestCount = call.saved.guestCount

\* C19: after handleStorageQuotaExceeded the draft is absent and the stored
\* list has at most 100 records: the last 100 of the list stored before, in
\* the same order, or all of them if there were fewer.
C19_KeepsLast100 ==
    call.op = "handleStorageQuotaExceeded" =>
        /\ call.after.draft = Null
        /\ Len(call.after.data) <= 100
        /\ call.after.data = SliceLast(call.before.data, 100)

-----------------------------------------------------------------------------
(* TimelineAnimationController (extended main script) *)

NumItems  == 2     \* .timeline-item elements in the document
MaxTimers == 2     \* pending setTimeout callbacks of one kind for one item

\* the items, by their data-timeline-index
Items == 0 .. (NumItems - 1)

\* the timers that touch an item: the one animateTimelineItem sets
\* (index * 150 ms) and the one triggerAllAnimations sets (index * 200 ms).
\* The timers of addPulseEffect and animateCard touch only the icon and the
\* card inside the item and are left out.
TimerIds == [kind : {"animate", "trigger"}, item : Items]

\* an item as setupInitialState and resetAnimations leave it, and as the
\* timer callback of animateTimelineItem leaves it
ItemHidden   == [animate |-> FALSE, opacity |-> 0]
ItemAnimated == [animate |-> TRUE, opacity |-> 1]

\* animateTimelineItem(item): the pending timers afterwards
animateTimelineItem(item, tm) ==
    [tm EXCEPT ![[kind |-> "animate", item |-> item]] = @ + 1]

TimelineOnly == UNCHANGED <<rsvpVars, geoVars, clipVars, loadVars, callVars>>

\* the constructor: the observer is set up and every item is hidden
InitTimeline ==
    /\ timelineItems = [i \in Items |-> ItemHidden]
    /\ animatedItems = {}
    /\ timers = [t \in TimerIds |-> 0]
    /\ inView = {}
    /\ sinceReset = [resetDone |-> FALSE, rearmed |-> {},
                     observerAnimations |-> [i \in Items |-> 0]]
    /\ RSVPAtRest /\ GeoAtRest /\ ClipAtRest /\ LoadAtRest /\ CallAtRest

\* the intersection observer's callback with an entry for one item, whose
\* intersection with the viewport has changed
ObserverCallback ==
    \E item \in Items :
        LET isIntersecting == item \notin inView
            animates == isIntersecting /\ item \notin animatedItems
        IN  /\ animates => timers[[kind |-> "animate", item |-> item]] < MaxTimers
            /\ inView' = (IF isIntersecting THEN inView \cup {item} ELSE inView \ {item})
            /\ timers' = (IF animates THEN animateTimelineItem(item, timers) ELSE timers)
            /\ animatedItems' = (IF animates THEN animatedItems \cup {item} ELSE animatedItems)
            /\ sinceReset' =
                  [sinceReset EXCEPT
                      !.rearmed = IF isIntersecting THEN @ \cup {item} ELSE @,
                      !.observerAnimations[item] = IF animates THEN @ + 1 ELSE @]
            /\ UNCHANGED timelineItems
            /\ TimelineOnly

\* the callback of the timer set by animateTimelineItem
AnimateTimer ==
    \E item \in Items :
        /\ timers[[kind |-> "animate", item |-> item]] > 0
        /\ timers' = [timers EXCEPT ![[kind |-> "animate", item |-> item]] = @ - 1]
        /\ timelineItems' = [timelineItems EXCEPT ![item] = ItemAnimated]
        /\ UNCHANGED <<animatedItems, inView, sinceReset>>
        /\ TimelineOnly

\* triggerAllAnimations (Ctrl+Shift+L): one timer per item
triggerAllAnimations ==
    /\ \A item \in Items : timers[[kind |-> "trigger", item |-> item]] < MaxTimers
    /\ timers' = [t \in TimerIds |-> IF t.kind = "trigger" THEN timers[t] + 1 ELSE timers[t]]
    /\ sinceReset' = [sinceReset EXCEPT !.rearmed = Items]
    /\ UNCHANGED <<timelineItems, animatedItems, inView>>
    /\ TimelineOnly

\* the callback of a timer set by triggerAllAnimations: animateTimelineItem
TriggerTimer ==
    \E item \in Items :
        /\ timers[[kind |-> "trigger", item |-> item]] > 0
        /\ timers[[kind |-> "animate", item |-> item]] < MaxTimers
        /\ timers' = animateTimelineItem(item,
              [timers EXCEPT ![[kind |-> "trigger", item |-> item]] = @ - 1])
        /\ UNCHANGED <<timelineItems, animatedItems, inView, sinceReset>>
        /\ TimelineOnly

\* resetAnimations (Ctrl+Shift+R): the set is cleared and every item hidden;
\* no timer is cleared
resetAnimations ==
    /\ animatedItems' = {}
    /\ timelineItems' = [i \in Items |-> ItemHidden]
    /\ sinceReset' = [resetDone |-> TRUE, rearmed |-> {},
                      observerAnimations |-> [i \in Items |-> 0]]
    /\ UNCHANGED <<timers, inView>>
    /\ TimelineOnly

NextTimeline ==
    \/ ObserverCallback
    \/ AnimateTimer
    \/ triggerAllAnimations
    \/ TriggerTimer
    \/ resetAnimations

SpecTimeline == InitTimeline /\ [][NextTimeline]_vars

\* C20: once resetAnimations has run, an item for which the observer has not
\* reported an intersection since, and with no triggerAllAnimations since,
\* has no "animate" class and opacity 0; and between resets the observer
\* animates each item at most once.
C20_ResetHoldsUntilRearmed ==
    /\ sinceReset.resetDone =>
          \A item \in Items :
              item \notin sinceReset.rearmed => timelineItems[item] = ItemHidden
    /\ \A item \in Items : sinceReset.observerAnimations[item] <= 1

=============================================================================
